---- MODULE Spec2Model ----
(***************************************************************************)
(* Station pipeline of weather.py (ASHP sizing and selection tool): one    *)
(* weather file is read, degree hours are computed, gated by block means,  *)
(* labelled with seasons, binned by temperature and aggregated by          *)
(* (hour, bin).                                                            *)
(*                                                                         *)
(* Units.  Every temperature of the catalog has one decimal digit, so a    *)
(* temperature is held as an integer number of tenths of a degree Celsius  *)
(* (18.3 C is 183).  A quotient (a mean, a degree hour) is held as an      *)
(* exact fraction <<numerator, denominator>> with denominator > 0; it is   *)
(* compared by cross multiplication.  Binary floating point rounding of    *)
(* +, - and mean() is not modelled; the one place where it changes a       *)
(* count (the length of np.arange) is a nondeterministic choice.           *)
(*                                                                         *)
(* pandas.  The chained writes df[col].iloc[a:b] = v and                   *)
(* df[col].fillna(.., inplace=True) are modelled as writing through to df  *)
(* (the behaviour of pandas without copy-on-write, for which the code was  *)
(* written).  The default of groupby's `observed` option differs between   *)
(* pandas versions and is a nondeterministic choice.                       *)
(***************************************************************************)
EXTENDS Integers, Sequences, FiniteSets, Bags, TLC

\* process_single_file: the run of one station.
VARIABLES pc, config, file, df, bins_list, result_df

\* One call of classify_seasons or of the constructor of ScenarioConfig.
VARIABLES op, args, outcome

\* run_all_scenarios, run_scenario and create_degree_hour_parallel.
VARIABLES rpc, call, build, cpu, folder, scenario, files, num_processes,
          pool, results, combined_df, saved, raised, runs

\* download_file_async for one file.
VARIABLES dpc, max_retries, attempt, semaphore, history, written, downloaded

station == <<pc, config, file, df, bins_list, result_df>>

single == <<op, args, outcome>>

scenarios == <<rpc, call, build, cpu, folder, scenario, files, num_processes,
               pool, results, combined_df, saved, raised, runs>>

download == <<dpc, max_retries, attempt, semaphore, history, written, downloaded>>

vars == <<station, single, scenarios, download>>

\* The parts of the program that a specification does not run stay as they
\* are before their first step.
StationIdle ==
    /\ pc = "idle" /\ config = [name |-> "none"] /\ file = [rows |-> 0]
    /\ df = [rows |-> 0] /\ bins_list = << >> /\ result_df = << >>

SingleIdle == op = "none" /\ args = << >> /\ outcome = [status |-> "idle"]

ScenariosIdle ==
    /\ rpc = "idle" /\ call = [fn |-> "none"] /\ build = [observed |-> FALSE]
    /\ cpu = 0 /\ folder = << >> /\ scenario = [name |-> "none"] /\ files = << >>
    /\ num_processes = 0 /\ pool = << >> /\ results = << >>
    /\ combined_df = << >> /\ saved = {} /\ raised = "none" /\ runs = << >>

DownloadIdle ==
    /\ dpc = "idle" /\ max_retries = 0 /\ attempt = 0 /\ semaphore = 0
    /\ history = << >> /\ written = FALSE /\ downloaded = "none"

----------------------------------------------------------------------------
(* Program constants *)

HOURS_PER_DAY == 24

HOURS_PER_WEEK == 168

\* Constants.TEMP_OVERFLOW_MIN = -100 and TEMP_OVERFLOW_MAX = 100, in tenths.
TEMP_OVERFLOW_MIN == -1000

TEMP_OVERFLOW_MAX == 1000

\* The stop of range(0, 8791, 24) and range(0, 8791, 168).
LOOP_STOP == 8791

\* df['py_year'] = 2020
STANDARDIZED_YEAR == 2020

HEATING == "heating"

COOLING == "cooling"

WINTER == "winter"

SPRING == "spring"

SUMMER == "summer"

FALL == "fall"

----------------------------------------------------------------------------
(* Exact fractions *)

Frac(n, d) == <<n, d>>

\* The float 0.0 that the code writes.
Zero == Frac(0, 1)

FracLt(a, b) == a[1] * b[2] < b[1] * a[2]

FracEq(a, b) == a[1] * b[2] = b[1] * a[2]

FracPos(a) == a[1] > 0

\* A temperature (tenths) as a fraction.
OfInt(x) == Frac(x, 1)

\* np.maximum(a, 0.0)
Maximum0(a) == IF a[1] > 0 THEN a ELSE Zero

Min(a, b) == IF a < b THEN a ELSE b

\* A function as a table of its values, computed once.
Table(f) == f @@ << >>

\* The sum of f[lo..hi], by halving (the order of a sum does not matter for
\* exact values).
RECURSIVE SumRange(_, _, _)
SumRange(f, lo, hi) ==
    IF lo > hi THEN 0
    ELSE IF lo = hi THEN f[lo]
    ELSE LET mid == (lo + hi) \div 2
         IN  SumRange(f, lo, mid) + SumRange(f, mid + 1, hi)

----------------------------------------------------------------------------
(* Scenario configurations *)

\* ScenarioConfig(...): the dataclass fields, temp_range as temp_min/temp_max.
ScenarioConfig(nm, ty, dth, wth, tmin, tmax, bs, dc, wc) ==
    [name |-> nm, degree_type |-> ty, daily_threshold |-> dth,
     weekly_threshold |-> wth, temp_min |-> tmin, temp_max |-> tmax,
     bin_size |-> bs, daily_condition |-> dc, weekly_condition |-> wc]

\* Variant of the validation: a range whose ends are equal is accepted.
PostInitStrict(c) == ~ (c.temp_min > c.temp_max) /\ ~ (c.bin_size <= 0)

\* ScenarioConfig.__post_init__: the two checks that raise ValueError.
PostInitOk(c) == ~(c.temp_min >= c.temp_max) /\ ~(c.bin_size <= 0)

PREDEFINED_SCENARIOS ==
    { ScenarioConfig("hdh_sc1", HEATING, 183, 183, -292, 128, 28, TRUE, FALSE),
      ScenarioConfig("hdh_sc2", HEATING, 149, 183, -292, 128, 28, TRUE, FALSE),
      ScenarioConfig("hdh_sc3", HEATING, 149, 171, -292, 128, 28, TRUE, TRUE),
      ScenarioConfig("cdh_sc1", COOLING, 183, 183, -292, 128, 28, TRUE, FALSE),
      ScenarioConfig("cdh_sc2", COOLING, 228, 183, -292, 128, 28, TRUE, FALSE),
      ScenarioConfig("cdh_sc3", COOLING, 228, 195, 236, 432, 28, TRUE, TRUE) }

\* Configurations outside the catalog that the constructor accepts and that
\* create_degree_hour_parallel(folder, config) can be called with: no flag
\* set, only the weekly flag set, and the bin geometry (0, 10) by 5.
OtherScenarios ==
    { ScenarioConfig("heat_none", HEATING, 183, 183, 0, 100, 50, FALSE, FALSE),
      ScenarioConfig("cool_none", COOLING, 183, 183, 0, 100, 50, FALSE, FALSE),
      ScenarioConfig("heat_weekly", HEATING, 149, 171, -292, 128, 28, FALSE, TRUE),
      ScenarioConfig("cool_weekly", COOLING, 228, 195, 236, 432, 28, FALSE, TRUE) }

Scenarios == { c \in PREDEFINED_SCENARIOS \cup OtherScenarios : PostInitOk(c) }

----------------------------------------------------------------------------
(* The calendar of datetime, as pd.to_datetime(..., format='%Y%m%d') uses it *)

IsLeap(y) == (y % 4 = 0 /\ y % 100 # 0) \/ y % 400 = 0

DaysInMonth(y, m) ==
    IF m = 2 THEN (IF IsLeap(y) THEN 29 ELSE 28)
    ELSE IF m \in {4, 6, 9, 11} THEN 30 ELSE 31

ValidDate(y, m, d) == m \in 1..12 /\ d >= 1 /\ d <= DaysInMonth(y, m)

RECURSIVE DaysBeforeMonth(_, _)
DaysBeforeMonth(y, m) ==
    IF m = 1 THEN 0 ELSE DaysBeforeMonth(y, m - 1) + DaysInMonth(y, m - 1)

\* The position of a valid date within its year, 1 for Jan 1.
DayOfYear(y, m, d) == DaysBeforeMonth(y, m) + d

\* Timestamps of one year are ordered as (year, day of year).
DateLe(y1, m1, d1, y2, m2, d2) ==
    y1 < y2 \/ (y1 = y2 /\ DayOfYear(y1, m1, d1) <= DayOfYear(y2, m2, d2))

----------------------------------------------------------------------------
(* Weather files: the rows pd.read_csv hands to parse_epw *)

\* Rows of a regular file: 365 days of 24 hours.
EPW_DATA_ROWS == 8760

\* Bounds of the files the model reads.
MaxDays == 2

CutRows == 19

LongRows == 8809

\* Temperatures of one day: the first for hours 1..12, the second for hours
\* 13..24 (tenths of a degree).
Profiles == { <<-500, 75>>, <<100, 300>>, <<320, 420>>, <<-1000, 2000>> }

\* The profile of each month of a file that covers a year.
MonthProfile ==
    << <<-350, -250>>, <<-200, -100>>, <<-50, 50>>, <<50, 150>>,
       <<100, 200>>, <<100, 230>>, <<220, 330>>, <<200, 300>>,
       <<120, 240>>, <<40, 140>>, <<-60, 40>>, <<-250, -150>> >>

\* The dates of a year without Feb 29, in order.
DateOfOrdinal ==
    LET Month(o) == CHOOSE m \in 1..12 :
            /\ DaysBeforeMonth(2001, m) < o
            /\ o <= DaysBeforeMonth(2001, m) + DaysInMonth(2001, m)
    IN  [o \in 1..365 |-> <<Month(o), o - DaysBeforeMonth(2001, Month(o))>>]

\* A file of n hourly rows in time order from hour 1 of the start date;
\* dayProfile[k, month] gives the temperatures of the k-th day.
EpwFile(start, n, dayProfile) ==
    LET o0 == DayOfYear(2001, start.month, start.day) - 1
        Ord(p) == o0 + ((p - 1) \div HOURS_PER_DAY)
        Date(p) == DateOfOrdinal[(Ord(p) % 365) + 1]
        Temp(p) ==
            LET pr == dayProfile[((p - 1) \div HOURS_PER_DAY) + 1, Date(p)[1]]
            IN  IF (p - 1) % HOURS_PER_DAY < 12 THEN pr[1] ELSE pr[2]
    IN  [ year     |-> [p \in 1..n |-> start.year + (Ord(p) \div 365)],
          month    |-> [p \in 1..n |-> Date(p)[1]],
          day      |-> [p \in 1..n |-> Date(p)[2]],
          hour     |-> [p \in 1..n |-> ((p - 1) % HOURS_PER_DAY) + 1],
          temp_air |-> [p \in 1..n |-> Temp(p)] ]

\* The short files start on the last day of winter.
StartDates == { [year |-> 1999, month |-> 3, day |-> 20] }

RECURSIVE SeqsUpTo(_, _)
SeqsUpTo(S, n) ==
    IF n = 0 THEN {<< >>}
    ELSE LET T == SeqsUpTo(S, n - 1)
         IN  T \cup { Append(t, x) : t \in {u \in T : Len(u) = n - 1}, x \in S }

ShortFiles ==
    { LET ByDay == [k \in 1..Len(days), m \in 1..12 |-> days[k]]
      IN  EpwFile(start, HOURS_PER_DAY * Len(days) - cut, ByDay) :
        days \in SeqsUpTo(Profiles, MaxDays) \ {<< >>},
        cut \in {0, CutRows},
        start \in StartDates }

YearFiles ==
    { LET ByMonth == [k \in 1..((n \div HOURS_PER_DAY) + 1), m \in 1..12 |-> MonthProfile[m]]
      IN  EpwFile([year |-> 2001, month |-> 1, day |-> 1], n, ByMonth) :
        n \in {EPW_DATA_ROWS, LongRows} }

\* The files read under configuration c: the files of a year are read under
\* the catalog only.
Files(c) == IF c \in PREDEFINED_SCENARIOS THEN ShortFiles \cup YearFiles ELSE ShortFiles

----------------------------------------------------------------------------
(* process_single_file, one step at a time *)

\* The empty DataFrame.
NoFrame == [rows |-> 0]

Rows(d) == Len(d.temp_air)

\* df[c] = v : adds the column or overwrites it.
SetColumn(d, c, v) == (c :> v) @@ d

Init ==
    /\ pc = "read_epw"
    /\ config \in Scenarios
    /\ file \in Files(config)
    /\ df = NoFrame
    /\ bins_list = << >>
    /\ result_df = << >>
    /\ SingleIdle /\ ScenariosIdle /\ DownloadIdle

\* parse_epw builds the index from year, month, day and hour - 1 with
\* format %Y%m%d%H, which raises on a date or an hour that does not exist.
IndexOk(f) ==
    { p \in 1..Len(f.temp_air) :
        ~ (ValidDate(f.year[p], f.month[p], f.day[p]) /\ f.hour[p] - 1 \in 0..23) } = {}

\* read_epw, then df['hour'] = df['hour'] - 1.
ReadEpw ==
    /\ pc = "read_epw"
    /\ IndexOk(file)
    /\ df' = SetColumn(file, "hour", [p \in 1..Len(file.hour) |-> file.hour[p] - 1])
    /\ pc' = "degree_hours"
    /\ UNCHANGED <<config, file, bins_list, result_df>>
    /\ UNCHANGED <<single, scenarios, download>>

\* Variant of the degree hour: the clamp at 0 is missing.
DegreeHourUnclamped(c, t) ==
    IF c.degree_type = HEATING
    THEN Frac(c.daily_threshold - t, HOURS_PER_DAY)
    ELSE Frac(t - c.daily_threshold, HOURS_PER_DAY)

\* The value calculate_degree_hours gives one hour of temperature t.
DegreeHour(c, t) ==
    IF c.degree_type = HEATING
    THEN Maximum0(Frac(c.daily_threshold - t, HOURS_PER_DAY))
    ELSE Maximum0(Frac(t - c.daily_threshold, HOURS_PER_DAY))

calculate_degree_hours(d, c) ==
    SetColumn(d, "degree_hour",
              [p \in 1..Rows(d) |-> DegreeHour(c, d.temp_air[p])])

CalculateDegreeHours ==
    /\ pc = "degree_hours"
    /\ df' = calculate_degree_hours(df, config)
    /\ pc' = "mean_temperatures"
    /\ UNCHANGED <<config, file, bins_list, result_df>>
    /\ UNCHANGED <<single, scenarios, download>>

\* i is one of the values of range(0, 8791, w).
InLoopRange(i, w) == i >= 0 /\ i < LOOP_STOP /\ i % w = 0

\* df['temp_air'].iloc[i:end_idx].mean(), positions counted from 0.
SliceMean(temp, i, end_idx) == Frac(SumRange(temp, i + 1, end_idx), end_idx - i)

\* One loop of calculate_mean_temperatures_vectorized: the column starts as
\* 0.0 and every i of the range with min(i + w, len(df)) > i writes the mean
\* of its slice to the positions i .. end_idx - 1.  Position q (from 0) lies
\* in the slice of i = (q div w) * w only.
BlockMeanColumn(temp, w) ==
    LET n == Len(temp)
        means == Table([k \in 0..((n - 1) \div w) |->
                        SliceMean(temp, k * w, Min(k * w + w, n))])
    IN  [p \in 1..n |->
            LET i == ((p - 1) \div w) * w
            IN  IF InLoopRange(i, w) /\ Min(i + w, n) > i
                THEN means[(p - 1) \div w]
                ELSE Zero]

calculate_mean_temperatures_vectorized(d) ==
    SetColumn(SetColumn(d, "daily_mean_temp_c",
                        BlockMeanColumn(d.temp_air, HOURS_PER_DAY)),
              "weekly_mean_temp_c", BlockMeanColumn(d.temp_air, HOURS_PER_WEEK))

CalculateMeanTemperatures ==
    /\ pc = "mean_temperatures"
    /\ df' = calculate_mean_temperatures_vectorized(df)
    /\ pc' = "conditional_filters"
    /\ UNCHANGED <<config, file, bins_list, result_df>>
    /\ UNCHANGED <<single, scenarios, download>>

\* Variant of the gate: the two-mean branch joins the means with "and".
MaskConjunction(d, c, p) ==
    IF c.degree_type = HEATING
    THEN IF c.daily_condition /\ ~ c.weekly_condition
         THEN ~ FracLt(d.daily_mean_temp_c[p], OfInt(c.daily_threshold))
         ELSE IF c.daily_condition \/ c.weekly_condition
         THEN ~ ( /\ FracLt(d.daily_mean_temp_c[p], OfInt(c.daily_threshold))
                  /\ FracLt(d.weekly_mean_temp_c[p], OfInt(c.weekly_threshold)) )
         ELSE TRUE
    ELSE IF c.daily_condition /\ ~ c.weekly_condition
         THEN ~ FracLt(OfInt(c.daily_threshold), d.daily_mean_temp_c[p])
         ELSE IF c.daily_condition \/ c.weekly_condition
         THEN ~ ( /\ FracLt(OfInt(c.daily_threshold), d.daily_mean_temp_c[p])
                  /\ FracLt(OfInt(c.weekly_threshold), d.weekly_mean_temp_c[p]) )
         ELSE FALSE

\* Variant of the gate: the daily-only branch is missing, so that a scenario
\* with only the daily flag falls into the two-mean branch.
MaskWithoutDailyOnly(d, c, p) ==
    IF c.degree_type = HEATING
    THEN IF c.daily_condition \/ c.weekly_condition
         THEN ~ ( \/ FracLt(d.daily_mean_temp_c[p], OfInt(c.daily_threshold))
                  \/ FracLt(d.weekly_mean_temp_c[p], OfInt(c.weekly_threshold)) )
         ELSE TRUE
    ELSE IF c.daily_condition \/ c.weekly_condition
         THEN ~ ( \/ FracLt(OfInt(c.daily_threshold), d.daily_mean_temp_c[p])
                  \/ FracLt(OfInt(c.weekly_threshold), d.weekly_mean_temp_c[p]) )
         ELSE FALSE

\* Variant of the gate: a scenario with only the weekly flag consults the
\* weekly mean alone.
MaskWeeklyAlone(d, c, p) ==
    IF c.degree_type = HEATING
    THEN IF c.daily_condition /\ ~ c.weekly_condition
         THEN ~ FracLt(d.daily_mean_temp_c[p], OfInt(c.daily_threshold))
         ELSE IF c.weekly_condition /\ ~ c.daily_condition
         THEN ~ FracLt(d.weekly_mean_temp_c[p], OfInt(c.weekly_threshold))
         ELSE IF c.daily_condition \/ c.weekly_condition
         THEN ~ ( \/ FracLt(d.daily_mean_temp_c[p], OfInt(c.daily_threshold))
                  \/ FracLt(d.weekly_mean_temp_c[p], OfInt(c.weekly_threshold)) )
         ELSE TRUE
    ELSE IF c.daily_condition /\ ~ c.weekly_condition
         THEN ~ FracLt(OfInt(c.daily_threshold), d.daily_mean_temp_c[p])
         ELSE IF c.weekly_condition /\ ~ c.daily_condition
         THEN ~ FracLt(OfInt(c.weekly_threshold), d.weekly_mean_temp_c[p])
         ELSE IF c.daily_condition \/ c.weekly_condition
         THEN ~ ( \/ FracLt(OfInt(c.daily_threshold), d.daily_mean_temp_c[p])
                  \/ FracLt(OfInt(c.weekly_threshold), d.weekly_mean_temp_c[p]) )
         ELSE FALSE

\* The mask of apply_conditional_filters at row p: TRUE where degree_hour is
\* set to 0.0.
Mask(d, c, p) ==
    IF c.degree_type = HEATING
    THEN IF c.daily_condition /\ ~ c.weekly_condition
         THEN ~ FracLt(d.daily_mean_temp_c[p], OfInt(c.daily_threshold))
         ELSE IF c.daily_condition \/ c.weekly_condition
         THEN ~ ( \/ FracLt(d.daily_mean_temp_c[p], OfInt(c.daily_threshold))
                  \/ FracLt(d.weekly_mean_temp_c[p], OfInt(c.weekly_threshold)) )
         ELSE TRUE
    ELSE IF c.daily_condition /\ ~ c.weekly_condition
         THEN ~ FracLt(OfInt(c.daily_threshold), d.daily_mean_temp_c[p])
         ELSE IF c.daily_condition \/ c.weekly_condition
         THEN ~ ( \/ FracLt(OfInt(c.daily_threshold), d.daily_mean_temp_c[p])
                  \/ FracLt(OfInt(c.weekly_threshold), d.weekly_mean_temp_c[p]) )
         ELSE FALSE

\* Variant of the gate: a masked hour keeps half of its value.
HalveWhereMasked(d, c) ==
    SetColumn(d, "degree_hour",
              [p \in 1..Rows(d) |->
                  IF Mask(d, c, p)
                  THEN Frac(d.degree_hour[p][1], 2 * d.degree_hour[p][2])
                  ELSE d.degree_hour[p]])

\* df.loc[mask, 'degree_hour'] = 0.0
apply_conditional_filters(d, c) ==
    SetColumn(d, "degree_hour",
              [p \in 1..Rows(d) |-> IF Mask(d, c, p) THEN Zero ELSE d.degree_hour[p]])

ApplyConditionalFilters ==
    /\ pc = "conditional_filters"
    /\ df' = apply_conditional_filters(df, config)
    /\ pc' = "seasons"
    /\ UNCHANGED <<config, file, bins_list, result_df>>
    /\ UNCHANGED <<single, scenarios, download>>

\* pd.to_datetime of '2020' + month + day: the date exists in 2020.
PyDateOk(m, d) == ValidDate(STANDARDIZED_YEAR, m, d)

\* py_datetime >= lo and py_datetime <= hi, lo and hi being <<month, day>> of 2020.
Between(m, d, lo, hi) ==
    /\ DateLe(STANDARDIZED_YEAR, lo[1], lo[2], STANDARDIZED_YEAR, m, d)
    /\ DateLe(STANDARDIZED_YEAR, m, d, STANDARDIZED_YEAR, hi[1], hi[2])

\* The nested np.where of classify_seasons.
Season(m, d) ==
    IF Between(m, d, <<1, 1>>, <<3, 20>>) THEN WINTER
    ELSE IF Between(m, d, <<3, 21>>, <<6, 20>>) THEN SPRING
    ELSE IF Between(m, d, <<6, 21>>, <<9, 20>>) THEN SUMMER
    ELSE IF Between(m, d, <<9, 21>>, <<12, 20>>) THEN FALL
    ELSE WINTER

\* Variant of the classification: the date compared with the ranges of 2020
\* carries the year of the row.
classify_seasons_row_year(d) ==
    SetColumn(d, "season",
        [p \in 1..Rows(d) |->
            LET In(lo, hi) ==
                    /\ DateLe(STANDARDIZED_YEAR, lo[1], lo[2], d.year[p], d.month[p], d.day[p])
                    /\ DateLe(d.year[p], d.month[p], d.day[p], STANDARDIZED_YEAR, hi[1], hi[2])
            IN  IF In(<<1, 1>>, <<3, 20>>) THEN WINTER
                ELSE IF In(<<3, 21>>, <<6, 20>>) THEN SPRING
                ELSE IF In(<<6, 21>>, <<9, 20>>) THEN SUMMER
                ELSE IF In(<<9, 21>>, <<12, 20>>) THEN FALL
                ELSE WINTER])


classify_seasons(d) ==
    SetColumn(d, "season", [p \in 1..Rows(d) |-> Season(d.month[p], d.day[p])])

ClassifySeasons ==
    /\ pc = "seasons"
    /\ { p \in 1..Rows(df) : ~ PyDateOk(df.month[p], df.day[p]) } = {}
    /\ df' = classify_seasons(df)
    /\ pc' = "bins"
    /\ UNCHANGED <<config, file, bins_list, result_df>>
    /\ UNCHANGED <<single, scenarios, download>>

\* A decimal with one digit that binary floating point holds exactly: a
\* multiple of 0.5.
FloatExact(x) == x % 5 = 0

\* The lengths np.arange(start, stop, step) can have: ceil((stop - start) /
\* step), the quotient computed in floating point.  When the exact quotient
\* is a whole number q and the operands are not held exactly, the computed
\* quotient may exceed q by a rounding error, and the length is q + 1
\* (ceil(42.0 / 2.8) is 16); both outcomes are kept.
ArangeLengths(start, stop, step) ==
    LET q == (stop - start) \div step
    IN  IF (stop - start) % step # 0 THEN {q + 1}
        ELSE IF FloatExact(start) /\ FloatExact(stop) /\ FloatExact(step) THEN {q}
        ELSE {q, q + 1}

\* np.arange(start, stop, step).tolist() of length n.
Arange(start, step, n) == [k \in 1..n |-> start + (k - 1) * step]

\* bins_list after the two inserts.
BinsList(c, n) ==
    <<TEMP_OVERFLOW_MIN>> \o Arange(c.temp_min, c.bin_size, n) \o <<TEMP_OVERFLOW_MAX>>

\* pd.cut raises ValueError unless the edges increase.
Increasing(edges) == { k \in 1..(Len(edges) - 1) : ~ (edges[k] < edges[k + 1]) } = {}

\* The missing value NaN of a bin.
NoBin == << >>

\* The categories of pd.cut(x, edges): the intervals (edges[k], edges[k+1]].
Categories(edges) == [k \in 1..(Len(edges) - 1) |-> <<edges[k], edges[k + 1]>>]

\* pd.cut(x, edges) for one value: right=True, include_lowest=False.
Cut(x, edges) ==
    LET hits == { k \in 1..(Len(edges) - 1) : edges[k] < x /\ x <= edges[k + 1] }
    IN  IF hits = {} THEN NoBin
        ELSE LET k == CHOOSE j \in hits : TRUE IN <<edges[k], edges[k + 1]>>

create_temperature_bins(d, edges) ==
    SetColumn(d, "bin", [p \in 1..Rows(d) |-> Cut(d.temp_air[p], edges)])

CreateTemperatureBins ==
    /\ pc = "bins"
    /\ \E n \in ArangeLengths(config.temp_min, config.temp_max, config.bin_size) :
         /\ Increasing(BinsList(config, n))
         /\ bins_list' = BinsList(config, n)
         /\ df' = create_temperature_bins(df, BinsList(config, n))
    /\ pc' = "aggregate"
    /\ UNCHANGED <<config, file, result_df>>
    /\ UNCHANGED <<single, scenarios, download>>

RECURSIVE Gcd(_, _)
Gcd(a, b) == IF b = 0 THEN a ELSE Gcd(b, a % b)

\* a + b for fractions that are not negative, in lowest terms.
FracAdd(a, b) ==
    LET n == a[1] * b[2] + b[1] * a[2]
        d == a[2] * b[2]
        g == Gcd(d, n)
    IN  Frac(n \div g, d \div g)

RECURSIVE FracSumRange(_, _, _)
FracSumRange(f, lo, hi) ==
    IF lo > hi THEN Zero
    ELSE IF lo = hi THEN f[lo]
    ELSE LET mid == (lo + hi) \div 2
         IN  FracAdd(FracSumRange(f, lo, mid), FracSumRange(f, mid + 1, hi))

\* The five count columns process_single_file adds before aggregating.
WithCountColumns(d) ==
    LET zeros == [p \in 1..Rows(d) |-> 0]
    IN  [count_hours_in_bin |-> zeros, count_hour_spring |-> zeros,
         count_hour_summer |-> zeros, count_hour_fall |-> zeros,
         count_hour_winter |-> zeros] @@ d

\* The values of the hour column in increasing order (the index is read
\* with %H, so they lie in 0..23).
HourKeys(d) ==
    LET present == { d.hour[p] : p \in 1..Rows(d) }
    IN  SelectSeq([h \in 1..HOURS_PER_DAY |-> h - 1], LAMBDA h : h \in present)

\* The rows of each hour, in order.
RowsByHour(d) ==
    LET all == [p \in 1..Rows(d) |-> p]
    IN  Table([h \in 0..(HOURS_PER_DAY - 1) |->
                 SelectSeq(all, LAMBDA p : d.hour[p] = h)])

\* The rows of the group (h, b), taken from the rows of hour h.  A row whose
\* bin is NaN belongs to no group (groupby drops it).
GroupMembers(d, hourRows, b) == SelectSeq(hourRows, LAMBDA p : d.bin[p] = b)

\* Variant of the total count: every row of the group is counted.
CountRows(d, m) == Len(m)

\* The lambdas of the aggregation: the rows of the group with a positive
\* degree_hour (and the season named).  The index of a file in time order
\* has no label twice, so .loc[g.index] selects the rows of the group.
CountPositive(d, m) == Len(SelectSeq(m, LAMBDA p : FracPos(d.degree_hour[p])))

\* Variant of the seasonal count: every row of the group that lies in the
\* season is counted.
CountSeasonRows(d, m, s) == Len(SelectSeq(m, LAMBDA p : d.season[p] = s))

CountSeason(d, m, s) ==
    Len(SelectSeq(m, LAMBDA p : d.season[p] = s /\ FracPos(d.degree_hour[p])))

\* One row of df.groupby(['hour', 'bin']).agg(...), after the rename and the
\* fillna(0.0) of temp_mean and of the counts.
GroupRow(d, h, b, m) ==
    [ hour        |-> h,
      bin         |-> b,
      degree_hour |-> FracSumRange([k \in 1..Len(m) |-> d.degree_hour[m[k]]], 1, Len(m)),
      temp_mean   |-> IF Len(m) = 0 THEN Zero
                      ELSE Frac(SumRange([k \in 1..Len(m) |-> d.temp_air[m[k]]], 1, Len(m)),
                                Len(m)),
      count_hours_in_bin |-> CountPositive(d, m),
      count_hour_spring  |-> CountSeason(d, m, SPRING),
      count_hour_summer  |-> CountSeason(d, m, SUMMER),
      count_hour_fall    |-> CountSeason(d, m, FALL),
      count_hour_winter  |-> CountSeason(d, m, WINTER) ]

\* The rows of df.groupby(['hour', 'bin'], observed=False).agg(...): one
\* for every hour of the frame and every category, sorted by hour and bin.
GroupTable(d, edges) ==
    LET hours == HourKeys(d)
        cats == Categories(edges)
        nc == Len(cats)
        byHour == RowsByHour(d)
    IN  Table([k \in 1..(Len(hours) * nc) |->
            LET h == hours[((k - 1) \div nc) + 1]
                b == cats[((k - 1) % nc) + 1]
            IN  GroupRow(d, h, b, GroupMembers(d, byHour[h], b))])

\* The (hour, bin) pairs that have a row.
ObservedKeys(d) == { <<d.hour[p], d.bin[p]>> : p \in 1..Rows(d) }

\* aggregate_results_optimized, from the rows of GroupTable.  groupby has no
\* `observed` argument here: with the default FALSE a categorical key gives
\* a row to every category, with the default TRUE only to the pairs that
\* have a row.
aggregate_results_optimized(table, keys, observed) ==
    IF observed
    THEN SelectSeq(table, LAMBDA r : <<r.hour, r.bin>> \in keys)
    ELSE table

AggregateResults ==
    /\ pc = "aggregate"
    /\ \E table \in {GroupTable(WithCountColumns(df), bins_list)} :
         \E keys \in {ObservedKeys(df)} :
            \E observed \in BOOLEAN :
               result_df' = aggregate_results_optimized(table, keys, observed)
    /\ df' = WithCountColumns(df)
    /\ pc' = "done"
    /\ UNCHANGED <<config, file, bins_list>>
    /\ UNCHANGED <<single, scenarios, download>>

Next ==
    \/ ReadEpw
    \/ CalculateDegreeHours
    \/ CalculateMeanTemperatures
    \/ ApplyConditionalFilters
    \/ ClassifySeasons
    \/ CreateTemperatureBins
    \/ AggregateResults

Spec == Init /\ [][Next]_vars

----------------------------------------------------------------------------
(* Stages of the pipeline *)

HasDegreeHour == pc \in {"mean_temperatures", "conditional_filters", "seasons",
                         "bins", "aggregate", "done"}

HasMeans == pc \in {"conditional_filters", "seasons", "bins", "aggregate", "done"}

BeforeGate == pc \in {"mean_temperatures", "conditional_filters"}

AfterGate == pc \in {"seasons", "bins", "aggregate", "done"}

HasSeason == pc \in {"bins", "aggregate", "done"}

HasBins == pc \in {"aggregate", "done"}

\* The block mean at row p satisfies the load direction of the scenario.
DailyQualifies(p) ==
    IF config.degree_type = HEATING
    THEN FracLt(df.daily_mean_temp_c[p], OfInt(config.daily_threshold))
    ELSE FracLt(OfInt(config.daily_threshold), df.daily_mean_temp_c[p])

WeeklyQualifies(p) ==
    IF config.degree_type = HEATING
    THEN FracLt(df.weekly_mean_temp_c[p], OfInt(config.weekly_threshold))
    ELSE FracLt(OfInt(config.weekly_threshold), df.weekly_mean_temp_c[p])

\* The degree hour of the text: (threshold - temp) / 24 on the side of the
\* load direction, 0 on the other.
Favours(p) ==
    IF config.degree_type = HEATING
    THEN df.temp_air[p] < config.daily_threshold
    ELSE df.temp_air[p] > config.daily_threshold

Excursion(p) ==
    IF config.degree_type = HEATING
    THEN config.daily_threshold - df.temp_air[p]
    ELSE df.temp_air[p] - config.daily_threshold

Computed(p) == IF Favours(p) THEN Frac(Excursion(p), HOURS_PER_DAY) ELSE Zero

\* Row p holds the degree hour as computed, or 0.
Kept(p) == FracEq(df.degree_hour[p], Computed(p))

Suppressed(p) == FracEq(df.degree_hour[p], Zero)

----------------------------------------------------------------------------
(* Claims *)

\* C1: with neither daily_condition nor weekly_condition set, a HEATING
\* scenario suppresses no hour (every hour keeps the computed degree_hour)
\* and a COOLING scenario suppresses every hour (degree_hour is 0).
C1_NoFlagAsymmetry ==
    (AfterGate /\ ~ config.daily_condition /\ ~ config.weekly_condition) =>
        \A p \in 1..Rows(df) :
            IF config.degree_type = HEATING THEN Kept(p) ELSE Suppressed(p)

\* C2: with both flags set, hour p is set to 0 exactly when neither its
\* daily mean nor its weekly mean satisfies its own threshold; an hour one
\* of whose means qualifies keeps the computed value.
C2_BothFlagsOr ==
    (AfterGate /\ config.daily_condition /\ config.weekly_condition) =>
        \A p \in 1..Rows(df) :
            IF DailyQualifies(p) \/ WeeklyQualifies(p) THEN Kept(p) ELSE Suppressed(p)

\* C2 witness: both flags set, and the gate has kept a positive hour whose
\* weekly mean qualifies and whose daily mean does not, kept one the other
\* way round, and zeroed a positive hour neither of whose means qualifies.
C2_Witness ==
    /\ AfterGate /\ config.daily_condition /\ config.weekly_condition
    /\ \E p \in 1..Rows(df) :
         /\ WeeklyQualifies(p) /\ ~ DailyQualifies(p)
         /\ FracPos(df.degree_hour[p])
    /\ \E p \in 1..Rows(df) :
         /\ DailyQualifies(p) /\ ~ WeeklyQualifies(p)
         /\ FracPos(df.degree_hour[p])
    /\ \E p \in 1..Rows(df) :
         /\ ~ DailyQualifies(p) /\ ~ WeeklyQualifies(p)
         /\ Favours(p) /\ Suppressed(p)

\* C3: with daily_condition set and weekly_condition not set, hour p is set
\* to 0 exactly when its daily mean does not satisfy the load direction;
\* the weekly mean and weekly_threshold play no part.
C3_DailyOnly ==
    (AfterGate /\ config.daily_condition /\ ~ config.weekly_condition) =>
        \A p \in 1..Rows(df) :
            IF DailyQualifies(p) THEN Kept(p) ELSE Suppressed(p)

\* C3 witness: only the daily flag set; a positive hour is zeroed although
\* its weekly mean qualifies, and a positive hour is kept although its
\* weekly mean does not.
C3_Witness ==
    /\ AfterGate /\ config.daily_condition /\ ~ config.weekly_condition
    /\ \E p \in 1..Rows(df) :
         /\ ~ DailyQualifies(p) /\ WeeklyQualifies(p)
         /\ Favours(p) /\ Suppressed(p)
    /\ \E p \in 1..Rows(df) :
         /\ DailyQualifies(p) /\ ~ WeeklyQualifies(p)
         /\ FracPos(df.degree_hour[p])

\* C4: degree_hour is never negative; as computed it is (threshold - temp)/24
\* on the side of the load direction and 0 on the other; after the gate it
\* is still never negative and 0 wherever the temperature does not favour
\* the load direction.
C4_DegreeHourNonNegative ==
    HasDegreeHour =>
        \A p \in 1..Rows(df) :
            /\ df.degree_hour[p][1] >= 0 /\ df.degree_hour[p][2] > 0
            /\ BeforeGate => Kept(p)
            /\ ~ Favours(p) => Suppressed(p)

\* C4 witness: after the gate, one hour with a positive degree hour and one
\* hour on the wrong side of the threshold.
C4_Witness ==
    /\ AfterGate
    /\ \E p \in 1..Rows(df) : Favours(p) /\ FracPos(df.degree_hour[p])
    /\ \E p \in 1..Rows(df) : ~ Favours(p) /\ Excursion(p) < 0

\* The mean of temp_air over the rows lo..hi.
MeanOfRows(lo, hi) == Frac(SumRange(df.temp_air, lo, hi), hi - lo + 1)

\* Every row of every block of w rows holds, in column col, the mean of the
\* block: the block of the 0-based position i is floor(i / w) * w up to
\* min(floor(i / w) * w + w, N) - 1.
BlockMeansHold(col, w) ==
    \A k \in 0..((Rows(df) - 1) \div w) :
        \A m \in {MeanOfRows(k * w + 1, Min(k * w + w, Rows(df)))} :
            \A p \in (k * w + 1)..Min(k * w + w, Rows(df)) : FracEq(col[p], m)

\* C5: for a file of any number of rows, daily_mean_temp_c and
\* weekly_mean_temp_c hold at every position the mean of temp_air over the
\* position's block of 24 (168) rows; no position keeps the initial 0.0.
C5_BlockMeansAnyLength ==
    HasMeans => /\ BlockMeansHold(df.daily_mean_temp_c, HOURS_PER_DAY)
                /\ BlockMeansHold(df.weekly_mean_temp_c, HOURS_PER_WEEK)

\* The intervals (edges[k], edges[k+1]] of bins_list that hold temperature t.
IntervalsHolding(t) ==
    { k \in 1..(Len(bins_list) - 1) : bins_list[k] < t /\ t <= bins_list[k + 1] }

\* C6: every temperature is assigned to exactly one bin, the extremes beyond
\* the overflow edges -100 and 100 included (they go to the low and the high
\* overflow bin).
C6_EveryTemperatureBinned ==
    HasBins =>
        \A p \in 1..Rows(df) :
            /\ df.bin[p] # NoBin
            /\ Cardinality(IntervalsHolding(df.temp_air[p])) = 1
            /\ df.temp_air[p] <= TEMP_OVERFLOW_MIN => df.bin[p] = Categories(bins_list)[1]
            /\ df.temp_air[p] > TEMP_OVERFLOW_MAX =>
                   df.bin[p] = Categories(bins_list)[Len(bins_list) - 1]

\* C7: with temp_range (0, 10) and bin_size 5 the edges are
\* [-100, 0, 5, 10, 100] (max, an exact multiple of bin_size above min, is
\* itself an edge); 7.5 falls in (5, 10] and -50 in (-100, 0].
C7_ExactMultipleEdges ==
    (HasBins /\ config.temp_min = 0 /\ config.temp_max = 100 /\ config.bin_size = 50) =>
        /\ bins_list = <<-1000, 0, 50, 100, 1000>>
        /\ \A p \in 1..Rows(df) :
             /\ df.temp_air[p] = 75 => df.bin[p] = <<50, 100>>
             /\ df.temp_air[p] = -500 => df.bin[p] = <<-1000, 0>>

\* C8: the sum of count_hours_in_bin over the rows of the result equals the
\* number of hours whose degree_hour is positive after the gate.
C8_CountsSumToPositiveHours ==
    pc = "done" =>
        SumRange([k \in 1..Len(result_df) |-> result_df[k].count_hours_in_bin],
                 1, Len(result_df))
          = Cardinality({ p \in 1..Rows(df) : FracPos(df.degree_hour[p]) })

\* The (hour, bin) group of row p.
KeyOf(p) == <<df.hour[p], df.bin[p]>>

\* How many rows of the set S each (hour, bin) group holds.
PerGroup(S) == BagOfAll(KeyOf, SetToBag(S))

PositiveRows == { p \in 1..Rows(df) : FracPos(df.degree_hour[p]) }

PositiveRowsOf(s) == { p \in 1..Rows(df) : FracPos(df.degree_hour[p]) /\ df.season[p] = s }

\* Column c of the result holds, in every row, the number of rows that the
\* bag counts gives the row's group.
CountsAre(c, counts) ==
    \A k \in 1..Len(result_df) :
        /\ result_df[k][c] \in Nat
        /\ result_df[k][c] = CopiesIn(<<result_df[k].hour, result_df[k].bin>>, counts)

\* C9: in every row of the result, count_hours_in_bin is the number of hours
\* of the group with degree_hour > 0, and each seasonal count the number of
\* those that lie in the season; a group without such hours has 0, never a
\* missing value.
C9_GroupCounts ==
    pc = "done" =>
        /\ \A counts \in {PerGroup(PositiveRows)} : CountsAre("count_hours_in_bin", counts)
        /\ \A counts \in {PerGroup(PositiveRowsOf(SPRING))} : CountsAre("count_hour_spring", counts)
        /\ \A counts \in {PerGroup(PositiveRowsOf(SUMMER))} : CountsAre("count_hour_summer", counts)
        /\ \A counts \in {PerGroup(PositiveRowsOf(FALL))} : CountsAre("count_hour_fall", counts)
        /\ \A counts \in {PerGroup(PositiveRowsOf(WINTER))} : CountsAre("count_hour_winter", counts)

\* C9 witness: the result has a group whose positive hours lie in two
\* seasons, and a group that has hours but none with a positive degree_hour.
C9_Witness ==
    /\ pc = "done"
    /\ \E k \in 1..Len(result_df) :
         /\ result_df[k].count_hour_winter > 0 /\ result_df[k].count_hour_spring > 0
         /\ result_df[k].count_hours_in_bin
              = result_df[k].count_hour_winter + result_df[k].count_hour_spring
    /\ \E k \in 1..Len(result_df) :
         /\ result_df[k].count_hours_in_bin = 0
         /\ result_df[k].count_hour_spring = 0 /\ result_df[k].count_hour_summer = 0
         /\ result_df[k].count_hour_fall = 0 /\ result_df[k].count_hour_winter = 0
         /\ \E p \in 1..Rows(df) : KeyOf(p) = <<result_df[k].hour, result_df[k].bin>>

\* (m1, d1) is not later in the year than (m2, d2), by month and day alone.
MonthDayLe(m1, d1, m2, d2) == m1 < m2 \/ (m1 = m2 /\ d1 <= d2)

\* The season of the text: Jan 1 - Mar 20 winter, Mar 21 - Jun 20 spring,
\* Jun 21 - Sep 20 summer, Sep 21 - Dec 20 fall, Dec 21 - Dec 31 winter.
SeasonOfMonthDay(m, d) ==
    CASE MonthDayLe(1, 1, m, d) /\ MonthDayLe(m, d, 3, 20) -> WINTER
      [] MonthDayLe(3, 21, m, d) /\ MonthDayLe(m, d, 6, 20) -> SPRING
      [] MonthDayLe(6, 21, m, d) /\ MonthDayLe(m, d, 9, 20) -> SUMMER
      [] MonthDayLe(9, 21, m, d) /\ MonthDayLe(m, d, 12, 20) -> FALL
      [] MonthDayLe(12, 21, m, d) /\ MonthDayLe(m, d, 12, 31) -> WINTER

\* C10: classify_seasons gives every row the season of its month and day
\* (the five date ranges of the text); the year of the row has no effect.
C10_SeasonByMonthDay ==
    HasSeason =>
        \A p \in 1..Rows(df) : df.season[p] = SeasonOfMonthDay(df.month[p], df.day[p])

\* C10 witness: a classified file with rows of two different years on the
\* same month and day, and with a row on each side of every boundary.
C10_Witness ==
    /\ HasSeason
    /\ Rows(df) > EPW_DATA_ROWS
    /\ \E p \in {1}, q \in {EPW_DATA_ROWS + 1} :
         /\ df.year[p] # df.year[q]
         /\ df.month[p] = df.month[q] /\ df.day[p] = df.day[q]
         /\ df.season[p] = df.season[q]
    /\ \A b \in {<<3, 20, WINTER>>, <<3, 21, SPRING>>, <<6, 20, SPRING>>,
                 <<6, 21, SUMMER>>, <<9, 20, SUMMER>>, <<9, 21, FALL>>,
                 <<12, 20, FALL>>, <<12, 21, WINTER>>, <<12, 31, WINTER>>} :
         \E p \in 1..Rows(df) :
            df.month[p] = b[1] /\ df.day[p] = b[2] /\ df.season[p] = b[3]

----------------------------------------------------------------------------
(* Single calls: classify_seasons on a frame of one row, and the           *)
(* constructor of ScenarioConfig                                           *)

\* The (month, day) pairs a frame handed to classify_seasons can hold.
MonthDayPairs == (1..12) \X (1..31)

OneRowFrame(m, d) == [month |-> <<m>>, day |-> <<d>>, temp_air |-> <<0>>]

\* Ends of temp_range and values of bin_size handed to the constructor.
RangeEnds == {-292, 0, 100, 128}

BinSizes == {-28, 0, 28, 50}

ConstructorArguments ==
    PREDEFINED_SCENARIOS \cup
    { ScenarioConfig("candidate", ty, 183, 183, lo, hi, bs, TRUE, FALSE) :
        ty \in {HEATING, COOLING}, lo \in RangeEnds, hi \in RangeEnds, bs \in BinSizes }

InitSingle ==
    /\ StationIdle /\ ScenariosIdle /\ DownloadIdle
    /\ outcome = [status |-> "called"]
    /\ \/ op = "classify_seasons" /\ args \in { OneRowFrame(md[1], md[2]) : md \in MonthDayPairs }
       \/ op = "ScenarioConfig" /\ args \in ConstructorArguments

\* classify_seasons(df): pd.to_datetime raises ValueError on a py_dateInt
\* that is no date of 2020.
CallClassifySeasons ==
    /\ op = "classify_seasons" /\ outcome.status = "called"
    /\ outcome' =
         IF { p \in 1..Rows(args) : ~ PyDateOk(args.month[p], args.day[p]) } = {}
         THEN [status |-> "returned", value |-> classify_seasons(args)]
         ELSE [status |-> "raised", value |-> "ValueError"]
    /\ UNCHANGED <<op, args>>
    /\ UNCHANGED <<station, scenarios, download>>

\* ScenarioConfig(...): the dataclass stores the fields, then __post_init__
\* raises ValueError on a bad range or bin size.
ConstructScenarioConfig ==
    /\ op = "ScenarioConfig" /\ outcome.status = "called"
    /\ outcome' =
         IF PostInitOk(args)
         THEN [status |-> "returned", value |-> args]
         ELSE [status |-> "raised", value |-> "ValueError"]
    /\ UNCHANGED <<op, args>>
    /\ UNCHANGED <<station, scenarios, download>>

NextSingle ==
    \/ CallClassifySeasons
    \/ ConstructScenarioConfig

SpecSingle == InitSingle /\ [][NextSingle]_vars

\* C11: classify_seasons maps every (month, day) with month in 1..12 and day
\* in 1..31 (Feb 30 and Apr 31 included) to one of the four labels without
\* raising, and Dec 31 to winter.
C11_SeasonTotal ==
    (op = "classify_seasons" /\ outcome.status # "called") =>
        /\ outcome.status = "returned"
        /\ outcome.value.season[1] \in {WINTER, SPRING, SUMMER, FALL}
        /\ (args.month[1] = 12 /\ args.day[1] = 31) => outcome.value.season[1] = WINTER

\* C19: constructing a ScenarioConfig with temp_range min >= max or with
\* bin_size <= 0 (numbers) raises at construction, so that every value that
\* exists after construction has min < max and bin_size > 0; the six catalog
\* entries are constructed.
C19_ConstructionValidates ==
    (op = "ScenarioConfig" /\ outcome.status # "called") =>
        /\ (args.temp_min >= args.temp_max \/ args.bin_size <= 0)
               => outcome.status = "raised"
        /\ outcome.status = "returned"
               => /\ outcome.value = args
                  /\ outcome.value.temp_min < outcome.value.temp_max
                  /\ outcome.value.bin_size > 0
        /\ args \in PREDEFINED_SCENARIOS => outcome.status = "returned"

\* C19 witness: the constructor has raised on a range whose ends are equal
\* and whose bin size is positive.
C19_Witness ==
    /\ op = "ScenarioConfig" /\ outcome.status = "raised"
    /\ args.temp_min = args.temp_max /\ args.bin_size > 0

\* C17: a station file that does not hold exactly 8760 hourly rows is a
\* failure of the station: its run does not reach the aggregated result and
\* none of its rows reach the output.
C17_RowCountContract ==
    Len(file.temp_air) # EPW_DATA_ROWS => (pc # "done" /\ result_df = << >>)

----------------------------------------------------------------------------
(* download_file_async: one file, under the semaphore of the downloads *)

\* The largest max_retries a call is made with (the default is 3).
MaxRetries == 4

\* The permits of the semaphore that are free when the call starts.
MaxPermits == 2

FAILED_STATUS == "get_status_other"

FAILED_EXCEPTION == "get_exception"

GOT_200 == "get_200"

SLEEP == "sleep"

InitDownload ==
    /\ StationIdle /\ SingleIdle /\ ScenariosIdle
    /\ dpc = "acquire"
    /\ max_retries \in 0..MaxRetries
    /\ semaphore \in 1..MaxPermits
    /\ attempt = 0
    /\ history = << >>
    /\ written = FALSE
    /\ downloaded = "none"

\* async with semaphore:
Acquire ==
    /\ dpc = "acquire" /\ semaphore > 0
    /\ semaphore' = semaphore - 1
    /\ dpc' = "loop"
    /\ UNCHANGED <<max_retries, attempt, history, written, downloaded>>
    /\ UNCHANGED <<station, single, scenarios>>

\* session.get answers with status 200: the content is read and written,
\* and the function returns True, leaving the semaphore.
GetOk ==
    /\ dpc = "loop" /\ attempt < max_retries
    /\ history' = Append(history, GOT_200)
    /\ written' = TRUE
    /\ downloaded' = "True"
    /\ semaphore' = semaphore + 1
    /\ dpc' = "returned"
    /\ UNCHANGED <<max_retries, attempt>>
    /\ UNCHANGED <<station, single, scenarios>>

\* session.get answers with another status: a warning is logged and the
\* loop goes on to the next attempt.
GetOtherStatus ==
    /\ dpc = "loop" /\ attempt < max_retries
    /\ history' = Append(history, FAILED_STATUS)
    /\ attempt' = attempt + 1
    /\ UNCHANGED <<dpc, max_retries, semaphore, written, downloaded>>
    /\ UNCHANGED <<station, single, scenarios>>

\* The request, the read or the write raises: before the last attempt the
\* handler sleeps, at the last attempt it logs the error.
GetException ==
    /\ dpc = "loop" /\ attempt < max_retries
    /\ history' = Append(history, FAILED_EXCEPTION)
    /\ IF attempt < max_retries - 1
       THEN dpc' = "sleep" /\ attempt' = attempt
       ELSE dpc' = "loop" /\ attempt' = attempt + 1
    /\ UNCHANGED <<max_retries, semaphore, written, downloaded>>
    /\ UNCHANGED <<station, single, scenarios>>

\* await asyncio.sleep(1) ends and the loop goes on to the next attempt.
Sleep ==
    /\ dpc = "sleep"
    /\ history' = Append(history, SLEEP)
    /\ attempt' = attempt + 1
    /\ dpc' = "loop"
    /\ UNCHANGED <<max_retries, semaphore, written, downloaded>>
    /\ UNCHANGED <<station, single, scenarios>>

\* range(max_retries) is exhausted: return False, leaving the semaphore.
ReturnFalse ==
    /\ dpc = "loop" /\ attempt >= max_retries
    /\ downloaded' = "False"
    /\ semaphore' = semaphore + 1
    /\ dpc' = "returned"
    /\ UNCHANGED <<max_retries, attempt, history, written>>
    /\ UNCHANGED <<station, single, scenarios>>

NextDownload ==
    \/ Acquire
    \/ GetOk
    \/ GetOtherStatus
    \/ GetException
    \/ Sleep
    \/ ReturnFalse

SpecDownload == InitDownload /\ [][NextDownload]_vars

\* The request attempts made so far.
Attempts == SelectSeq(history, LAMBDA e : e \in {GOT_200, FAILED_STATUS, FAILED_EXCEPTION})

\* At most max_retries attempts are made and the call can always go on
\* until it has returned.
BoundedAttempts ==
    /\ Len(Attempts) <= max_retries
    /\ dpc = "returned" \/ ENABLED NextDownload

\* True is returned at the first attempt that gets status 200, after the
\* file is written; False when every attempt has failed.
ReturnsByOutcome ==
    /\ downloaded = "True" =>
          /\ written
          /\ Attempts[Len(Attempts)] = GOT_200
          /\ \A j \in 1..(Len(Attempts) - 1) : Attempts[j] # GOT_200
    /\ downloaded = "False" =>
          /\ Len(Attempts) = max_retries
          /\ \A j \in 1..Len(Attempts) : Attempts[j] # GOT_200
    /\ (Len(Attempts) > 0 /\ Attempts[Len(Attempts)] = GOT_200) => downloaded = "True"

\* A failed attempt that another attempt follows is followed by a wait first.
WaitsBetweenAttempts ==
    \A j \in 1..(Len(history) - 1) :
        history[j] \in {FAILED_STATUS, FAILED_EXCEPTION} => history[j + 1] = SLEEP

\* C20: download_file_async makes at most max_retries attempts and returns;
\* it returns True at the first attempt that gets status 200 (the file
\* written) and False when all attempts fail; every failed attempt that is
\* not the last is followed by a wait before the next attempt.
C20_RetryWithBackoff == BoundedAttempts /\ ReturnsByOutcome /\ WaitsBetweenAttempts

----------------------------------------------------------------------------
(* run_all_scenarios, run_scenario and create_degree_hour_parallel over   *)
(* the station files of a folder                                          *)

\* The largest number of station files in the folder.
MaxStations == 2

\* The largest explicit num_processes of a call.
MaxProcesses == 2

\* The largest cpu_count().
MaxCpu == 2

\* num_processes=None, the default of the three functions.
NO_NUM_PROCESSES == 0

\* The keys of PREDEFINED_SCENARIOS in the order of the dictionary.
CatalogNames == <<"hdh_sc1", "hdh_sc2", "hdh_sc3", "cdh_sc1", "cdh_sc2", "cdh_sc3">>

\* A name that is no key of the catalog.
OtherNames == {"hdh_sc9"}

\* The names run_scenario is called with directly: a heating and a cooling
\* key of the catalog, and a name that is no key.
CalledNames == {"hdh_sc1", "cdh_sc3"} \cup OtherNames

IsCatalogName(nm) == \E k \in 1..Len(CatalogNames) : CatalogNames[k] = nm

\* PREDEFINED_SCENARIOS[scenario_name]
CatalogEntry(nm) == CHOOSE c \in PREDEFINED_SCENARIOS : c.name = nm

\* The hourly rows a station file can hold: two rows at -50.0, three rows
\* at 10.0, and rows whose first hour is 25, on which the index cannot be
\* built.  Every temperature lies within the overflow edges.
StationRows ==
    LET cold == [k \in 1..1, m \in 1..12 |-> <<-500, 75>>]
        mild == [k \in 1..1, m \in 1..12 |-> <<100, 300>>]
        start == [year |-> 1999, month |-> 3, day |-> 20]
    IN  [ cold |-> EpwFile(start, 2, cold),
          mild |-> EpwFile(start, 3, mild),
          corrupt |-> [EpwFile(start, 2, mild) EXCEPT !.hour = <<25, 2>>] ]

\* The station file number k: its first line names the station, here by
\* its number.
StationFile(k, kind) ==
    [ file_path |-> k,
      meta |-> [city |-> k, state_prov |-> "ON"],
      data |-> StationRows[kind] ]

\* The folders: station files 1..n of any kind, in the order glob lists them.
Folders ==
    UNION { { [k \in 1..n |-> StationFile(k, kinds[k])] :
                kinds \in [1..n -> {"cold", "mild", "corrupt"}] } : n \in 0..MaxStations }

\* What the build fixes: the default of groupby's observed option, and the
\* rounding of the quotient in np.arange.
Builds == [observed : BOOLEAN, round_up : BOOLEAN]

ArangeLength(c, b) ==
    LET lens == ArangeLengths(c.temp_min, c.temp_max, c.bin_size)
    IN  CHOOSE n \in lens : \A m \in lens : IF b.round_up THEN m <= n ELSE n <= m

\* The value process_single_file returns when the run of the station raised.
None == [none |-> TRUE]

\* A result that pool.map has not got yet.
Pending == [pending |-> TRUE]

ProcessingResults(aggregated_data, metadata, file_path) ==
    [aggregated_data |-> aggregated_data, metadata |-> metadata, file_path |-> file_path]

\* process_single_file((file_path, config)): the steps of the station run in
\* order; an exception of any step is caught and None is returned.
process_single_file(f, c, b) ==
    IF ~ IndexOk(f.data) THEN None
    ELSE
      LET d0 == SetColumn(f.data, "hour", [p \in 1..Rows(f.data) |-> f.data.hour[p] - 1])
          d1 == calculate_degree_hours(d0, c)
          d2 == calculate_mean_temperatures_vectorized(d1)
          d3 == apply_conditional_filters(d2, c)
          edges == BinsList(c, ArangeLength(c, b))
      IN  IF { p \in 1..Rows(d3) : ~ PyDateOk(d3.month[p], d3.day[p]) } # {}
             \/ ~ Increasing(edges)
          THEN None
          ELSE
            LET d5 == create_temperature_bins(classify_seasons(d3), edges)
                table == GroupTable(WithCountColumns(d5), edges)
                result_rows == aggregate_results_optimized(table, ObservedKeys(d5), b.observed)
            IN  ProcessingResults(
                    [k \in 1..Len(result_rows) |->
                        [city |-> f.meta.city, state_prov |-> f.meta.state_prov]
                            @@ result_rows[k]],
                    f.meta, f.file_path)

RECURSIVE ConcatFrames(_)
\* pd.concat(frames, ignore_index=True)
ConcatFrames(frames) ==
    IF frames = << >> THEN << >> ELSE Head(frames) \o ConcatFrames(Tail(frames))

\* The calls of the module's entry points: run_all_scenarios(weather_folder,
\* results_folder, num_processes) and run_scenario(scenario_name,
\* folder_location, num_processes).
Calls ==
    { [fn |-> "run_all_scenarios", scenario_name |-> "none",
       num_processes |-> np, remaining |-> CatalogNames] :
         np \in {NO_NUM_PROCESSES} \cup 1..MaxProcesses }
    \cup
    { [fn |-> "run_scenario", scenario_name |-> nm,
       num_processes |-> np, remaining |-> << >>] :
         nm \in CalledNames,
         np \in {NO_NUM_PROCESSES} \cup 1..MaxProcesses }

InitRun ==
    /\ StationIdle /\ SingleIdle /\ DownloadIdle
    /\ call \in Calls
    /\ rpc = call.fn
    /\ build \in Builds
    /\ cpu \in 1..MaxCpu
    /\ folder \in Folders
    /\ scenario = [name |-> "none"]
    /\ files = << >>
    /\ num_processes = 0
    /\ pool = << >>
    /\ results = << >>
    /\ combined_df = << >>
    /\ saved = {}
    /\ raised = "none"
    /\ runs = << >>

\* The parameters of run_scenario.
RUN_SCENARIO_PARAMETERS == <<"scenario_name", "folder_location", "num_processes">>

\* The positional arguments of the call of run_scenario in the loop of
\* run_all_scenarios.
LoopArguments(nm) == <<nm, "weather_folder", "results_folder", call.num_processes>>

\* run_all_scenarios up to its loop: the folders are made and the weather
\* files downloaded; folder is the weather folder after the download.
RunAllScenarios ==
    /\ rpc = "run_all_scenarios"
    /\ rpc' = "for_scenario"
    /\ UNCHANGED <<call, build, cpu, folder, scenario, files, num_processes,
                   pool, results, combined_df, saved, raised, runs>>
    /\ UNCHANGED <<station, single, download>>

\* One turn of `for scenario_name in PREDEFINED_SCENARIOS.keys()`: the call
\* of run_scenario binds its positional arguments to the parameters, and
\* raises TypeError when there are more arguments than parameters.
ForScenario ==
    /\ rpc = "for_scenario"
    /\ IF call.remaining = << >>
       THEN rpc' = "returned" /\ UNCHANGED <<call, raised>>
       ELSE IF Len(LoopArguments(Head(call.remaining))) > Len(RUN_SCENARIO_PARAMETERS)
            THEN rpc' = "raised" /\ raised' = "TypeError" /\ UNCHANGED call
            ELSE /\ rpc' = "run_scenario"
                 /\ call' = [call EXCEPT !.scenario_name = Head(call.remaining)]
                 /\ UNCHANGED raised
    /\ UNCHANGED <<build, cpu, folder, scenario, files, num_processes,
                   pool, results, combined_df, saved, runs>>
    /\ UNCHANGED <<station, single, download>>

\* What run_scenario does with a name that is no key of the catalog.
UnknownScenarioIgnored == [rpc |-> "returned", raised |-> "none"]

UnknownScenario == [rpc |-> "raised", raised |-> "ValueError"]

\* run_scenario: the validation of the name and the lookup of the config.
RunScenario ==
    /\ rpc = "run_scenario"
    /\ IF ~ IsCatalogName(call.scenario_name)
       THEN /\ rpc' = UnknownScenario.rpc
            /\ raised' = UnknownScenario.raised
            /\ UNCHANGED scenario
       ELSE /\ scenario' = CatalogEntry(call.scenario_name)
            /\ rpc' = "create_degree_hour_parallel"
            /\ UNCHANGED raised
    /\ UNCHANGED <<call, build, cpu, folder, files, num_processes,
                   pool, results, combined_df, saved, runs>>
    /\ UNCHANGED <<station, single, download>>

\* create_degree_hour_parallel up to the creation of the pool: the files are
\* listed, num_processes gets its default, and the pool is created with its
\* workers idle and no task handed out.
CreateDegreeHourParallel ==
    /\ rpc = "create_degree_hour_parallel"
    /\ files' = folder
    /\ runs' = Append(runs, scenario.name)
    /\ IF folder = << >>
       THEN /\ combined_df' = << >>
            /\ rpc' = "results_df"
            /\ UNCHANGED <<num_processes, pool, results>>
       ELSE /\ num_processes' = IF call.num_processes = NO_NUM_PROCESSES
                                THEN Min(cpu, Len(folder))
                                ELSE call.num_processes
            /\ pool' = [workers |-> [w \in 1..num_processes' |-> 0], next |-> 1, order |-> << >>]
            /\ results' = [i \in 1..Len(folder) |-> Pending]
            /\ rpc' = "pool"
            /\ UNCHANGED combined_df
    /\ UNCHANGED <<call, build, cpu, folder, scenario, saved, raised>>
    /\ UNCHANGED <<station, single, download>>

\* args = [(file_path, config) for file_path in files]
TaskOfFirstFile(i) == <<files[1], scenario>>

Task(i) == <<files[i], scenario>>

\* An idle worker of the pool takes the next task of pool.map.
WorkerTake ==
    /\ rpc = "pool"
    /\ pool.next <= Len(files)
    /\ \E w \in DOMAIN pool.workers :
         /\ pool.workers[w] = 0
         /\ pool' = [pool EXCEPT !.workers[w] = pool.next, !.next = pool.next + 1]
    /\ UNCHANGED <<rpc, call, build, cpu, folder, scenario, files, num_processes,
                   results, combined_df, saved, raised, runs>>
    /\ UNCHANGED <<station, single, download>>

\* A worker finishes its task: process_single_file of the task's arguments.
WorkerFinish ==
    /\ rpc = "pool"
    /\ \E w \in DOMAIN pool.workers :
         /\ pool.workers[w] # 0
         /\ LET i == pool.workers[w]
            IN  /\ results' = [results EXCEPT
                                 ![i] = process_single_file(Task(i)[1], Task(i)[2], build)]
                /\ pool' = [pool EXCEPT !.workers[w] = 0, !.order = Append(pool.order, i)]
    /\ UNCHANGED <<rpc, call, build, cpu, folder, scenario, files, num_processes,
                   combined_df, saved, raised, runs>>
    /\ UNCHANGED <<station, single, download>>

\* valid_results = [r for r in results if r is not None]
ValidUntilFailure(rs) ==
    LET failed == { i \in 1..Len(rs) : rs[i] = None }
    IN  IF failed = {} THEN rs
        ELSE SubSeq(rs, 1, (CHOOSE i \in failed : \A j \in failed : i <= j) - 1)

NotNone(r) == r # None

valid_results(rs) == SelectSeq(rs, NotNone)

\* pool.map returns once every task is done; the rest of
\* create_degree_hour_parallel filters and concatenates the results.
PoolMapReturns ==
    /\ rpc = "pool"
    /\ pool.next > Len(files)
    /\ \A w \in DOMAIN pool.workers : pool.workers[w] = 0
    /\ combined_df' =
         ConcatFrames([k \in 1..Len(valid_results(results)) |->
                          valid_results(results)[k].aggregated_data])
    /\ rpc' = "results_df"
    /\ UNCHANGED <<call, build, cpu, folder, scenario, files, num_processes,
                   pool, results, saved, raised, runs>>
    /\ UNCHANGED <<station, single, download>>

\* The end of run_scenario: save_results when results_df is not empty (an
\* exception of the write is caught by save_results), an error message when
\* it is empty; the function returns None after either.
SaveResults ==
    /\ rpc = "results_df"
    /\ IF combined_df # << >>
       THEN \E write_ok \in BOOLEAN :
               saved' = IF write_ok THEN saved \cup {scenario.name} ELSE saved
       ELSE UNCHANGED saved
    /\ IF call.fn = "run_all_scenarios"
       THEN /\ rpc' = "for_scenario"
            /\ call' = [call EXCEPT !.remaining = Tail(call.remaining)]
       ELSE /\ rpc' = "returned"
            /\ UNCHANGED call
    /\ UNCHANGED <<build, cpu, folder, scenario, files, num_processes,
                   pool, results, combined_df, raised, runs>>
    /\ UNCHANGED <<station, single, download>>

NextRun ==
    \/ RunAllScenarios
    \/ ForScenario
    \/ RunScenario
    \/ CreateDegreeHourParallel
    \/ WorkerTake
    \/ WorkerFinish
    \/ PoolMapReturns
    \/ SaveResults

SpecRun == InitRun /\ [][NextRun]_vars

----------------------------------------------------------------------------
(* Claims about the orchestration, checked under SpecRun                  *)

\* The station files whose rows the index can be built on.
Decodable(fs) == { i \in 1..Len(fs) : IndexOk(fs[i].data) }

StationId(meta) == <<meta.city, meta.state_prov>>

StationIds(rows) == { <<rows[k].city, rows[k].state_prov>> : k \in 1..Len(rows) }

\* C12: the table create_degree_hour_parallel returns holds exactly the
\* stations that were processed successfully: a station whose run raises
\* gives None and no exception reaches the caller, the station ids of the
\* table are those of the successful stations, and the rows of every
\* successful station are the rows of its own run, unaltered.
C12_SuccessfulStationsOnly ==
    rpc = "results_df" =>
        /\ raised = "none"
        /\ \A i \in 1..Len(files) : (results[i] = None) <=> (i \notin Decodable(files))
        /\ StationIds(combined_df) = { StationId(files[i].meta) : i \in Decodable(files) }
        /\ \A i \in Decodable(files) :
              LET OfStation(r) == <<r.city, r.state_prov>> = StationId(files[i].meta)
              IN  SelectSeq(combined_df, OfStation)
                    = process_single_file(files[i], scenario, build).aggregated_data

\* A station that fails is listed before a station that succeeds, and the
\* table has been returned.
C12_Witness ==
    /\ rpc = "results_df"
    /\ combined_df # << >>
    /\ \E i \in 1..Len(files) : \E j \in Decodable(files) :
          i < j /\ i \notin Decodable(files)

RECURSIVE SequentialRows(_, _, _)
\* The rows of the stations processed one after the other, in the order of
\* the files.
SequentialRows(fs, c, b) ==
    IF fs = << >> THEN << >>
    ELSE LET r == process_single_file(Head(fs), c, b)
         IN  (IF r = None THEN << >> ELSE r.aggregated_data)
                \o SequentialRows(Tail(fs), c, b)

\* C13: the rows returned do not depend on the number of workers nor on the
\* order in which the workers take and finish the stations: they are the
\* rows of the stations processed one after the other, concatenated.
C13_SameRowsAsSequential ==
    rpc = "results_df" => combined_df = SequentialRows(files, scenario, build)

\* Two workers, the second station finished before the first, and rows of
\* both stations in the table.
C13_Witness ==
    /\ rpc = "results_df"
    /\ Len(files) = 2
    /\ Len(pool.workers) = 2
    /\ pool.order = <<2, 1>>
    /\ Cardinality(StationIds(combined_df)) = 2

\* C14: every pool is created with no more workers than CPUs and no more
\* workers than station files, also when num_processes is passed.
C14_WorkersBounded ==
    rpc = "pool" =>
        /\ Len(pool.workers) <= cpu
        /\ Len(pool.workers) <= Len(files)

\* C15: when run_all_scenarios has ended, the orchestrator has been run once
\* for each of the six catalog scenarios, and no exception ended the run.
C15_AllScenariosRun ==
    (call.fn = "run_all_scenarios" /\ rpc \in {"returned", "raised"}) =>
        /\ runs = CatalogNames
        /\ raised = "none"

\* C16: a run of run_scenario in which no station succeeds writes no output
\* file and ends with a failure the caller can tell from a successful run.
C16_ZeroSuccessReported ==
    ( /\ call.fn = "run_scenario"
      /\ IsCatalogName(call.scenario_name)
      /\ Decodable(folder) = {}
      /\ rpc \in {"returned", "raised"} ) =>
        /\ saved = {}
        /\ raised # "none"

\* C18: run_scenario with a name that is no key of the catalog raises
\* ValueError; no station file has been listed, no station processed and no
\* output written, and the call never returns.
C18_UnknownNameRaises ==
    (call.fn = "run_scenario" /\ ~ IsCatalogName(call.scenario_name)) =>
        /\ rpc \in {"run_scenario", "raised"}
        /\ rpc = "raised" => raised = "ValueError"
        /\ files = << >> /\ results = << >> /\ runs = << >> /\ saved = {}

\* An unknown name over a folder that holds station files, after the raise.
C18_Witness ==
    /\ call.fn = "run_scenario"
    /\ ~ IsCatalogName(call.scenario_name)
    /\ folder # << >>
    /\ rpc = "raised"
    /\ raised = "ValueError"

----------------------------------------------------------------------------
(* Claims about the gate and the aggregation, checked under Spec          *)

\* The hours whose degree hour, as calculate_degree_hours computes it, is
\* positive.
ComputedPositive == { p \in 1..Rows(df) : FracPos(DegreeHour(config, df.temp_air[p])) }

\* C21: after apply_conditional_filters the degree_hour of every hour is the
\* value calculate_degree_hours computed or 0; temp_air, month, day, hour
\* and the two block means are what they were before the gate; and whether
\* an hour is set to 0 is decided by its block means: hours with the same
\* daily and weekly mean are all set to 0 or all kept, whatever their own
\* temp_air.
C21_GateOnlyZeroes ==
    AfterGate =>
        /\ \A p \in 1..Rows(df) :
              \/ FracEq(df.degree_hour[p], DegreeHour(config, df.temp_air[p]))
              \/ df.degree_hour[p] = Zero
        /\ df.temp_air = file.temp_air
        /\ df.month = file.month
        /\ df.day = file.day
        /\ df.hour = [p \in 1..Len(file.hour) |-> file.hour[p] - 1]
        /\ df.daily_mean_temp_c = BlockMeanColumn(file.temp_air, HOURS_PER_DAY)
        /\ df.weekly_mean_temp_c = BlockMeanColumn(file.temp_air, HOURS_PER_WEEK)
        /\ Cardinality({ <<df.daily_mean_temp_c[p], df.weekly_mean_temp_c[p]>> :
                            p \in ComputedPositive })
             = Cardinality({ <<df.daily_mean_temp_c[p], df.weekly_mean_temp_c[p],
                               Suppressed(p)>> : p \in ComputedPositive })

\* C21 witness: after the gate of a short file, an hour whose own
\* temperature favours the load is set to 0, and two hours of one block
\* with different temperatures both keep their positive values.
C21_Witness ==
    /\ AfterGate
    /\ Rows(df) <= 2 * HOURS_PER_DAY
    /\ \E p \in 1..Rows(df) : Favours(p) /\ Suppressed(p)
    /\ \E p, q \in 1..Rows(df) :
          /\ df.daily_mean_temp_c[p] = df.daily_mean_temp_c[q]
          /\ df.weekly_mean_temp_c[p] = df.weekly_mean_temp_c[q]
          /\ df.temp_air[p] # df.temp_air[q]
          /\ FracPos(df.degree_hour[p]) /\ FracPos(df.degree_hour[q])

\* C22: in every row of the result the four seasonal counts add up to
\* count_hours_in_bin, and the degree_hour of the row (the sum of the group)
\* is positive exactly when count_hours_in_bin is.
C22_SeasonCountsAddUp ==
    pc = "done" =>
        \A k \in 1..Len(result_df) :
            /\ result_df[k].count_hour_spring + result_df[k].count_hour_summer
                 + result_df[k].count_hour_fall + result_df[k].count_hour_winter
               = result_df[k].count_hours_in_bin
            /\ FracPos(result_df[k].degree_hour) <=> result_df[k].count_hours_in_bin > 0

\* C22 witness: the result has a row with a positive degree_hour whose
\* hours lie in two seasons, and a row of a group that has hours, all of
\* them with degree_hour 0.
C22_Witness ==
    /\ pc = "done"
    /\ \E k \in 1..Len(result_df) :
         /\ FracPos(result_df[k].degree_hour)
         /\ Cardinality({ c \in {"count_hour_spring", "count_hour_summer",
                                  "count_hour_fall", "count_hour_winter"} :
                             result_df[k][c] > 0 }) >= 2
    /\ \E k \in 1..Len(result_df) :
         /\ ~ FracPos(result_df[k].degree_hour)
         /\ result_df[k].count_hours_in_bin = 0
         /\ FracPos(result_df[k].temp_mean) \/ FracPos(Frac(0 - result_df[k].temp_mean[1], 1))

\* The scenario with both flags set and nothing else changed.
WithBothFlags(c) == [c EXCEPT !.daily_condition = TRUE, !.weekly_condition = TRUE]

====
